---------------------------- MODULE Spec2Model ----------------------------
(***************************************************************************)
(* A model of the Whisper transcription client                             *)
(* (src/api/whisper/client.go, with the option builders of src/main.go).   *)
(*                                                                         *)
(* Go strings the code takes apart or joins (URLs, paths, file names, the  *)
(* API key, the Content-Encoding header) are sequences of one-character    *)
(* strings, so that trimming, searching, joining and lower-casing are      *)
(* computed and not assumed.  Strings the code only compares or passes on  *)
(* (model, language, messages) are TLA+ strings.                           *)
(***************************************************************************)
EXTENDS Integers, Sequences, FiniteSets, TLC

VARIABLES
    client,   \* the *Client NewClient returned: apiKey, baseURL, httpClient
    calls,    \* per caller: the Transcribe / TranscribeFile invocation
    sent,     \* the requests handed to httpClient.Do, in order
    stderr,   \* what was copied to os.Stderr, in order
    urlCall   \* the direct call of Client.URL: its argument and result

vars == <<client, calls, sent, stderr, urlCall>>

(***************************************************************************)
(* Bounds of the model.                                                    *)
(***************************************************************************)
MaxOpts == 2        \* longest list of Transcribe options a caller passes
MaxClientOpts == 2  \* longest list of client options given to NewClient
MaxBaseLen == 3     \* longest base URL of the URL specification
MaxRelLen == 4      \* longest argument of URL in the URL specification

NULL == "nil"

(***************************************************************************)
(* package strings                                                         *)
(***************************************************************************)
Slash == {"/"}

SchemeSep == <<":", "/", "/">>

RECURSIVE TrimRight(_, _)
TrimRight(s, cutset) ==
    IF s # <<>> /\ s[Len(s)] \in cutset
    THEN TrimRight(SubSeq(s, 1, Len(s) - 1), cutset)
    ELSE s

RECURSIVE TrimLeft(_, _)
TrimLeft(s, cutset) ==
    IF s # <<>> /\ s[1] \in cutset
    THEN TrimLeft(Tail(s), cutset)
    ELSE s

Contains(s, substr) ==
    \E i \in 1..(Len(s) - Len(substr) + 1) :
        SubSeq(s, i, i + Len(substr) - 1) = substr

UpperLetters ==
    <<"A", "B", "C", "D", "E", "F", "G", "H", "I", "J", "K", "L", "M",
      "N", "O", "P", "Q", "R", "S", "T", "U", "V", "W", "X", "Y", "Z">>

LowerLetters ==
    <<"a", "b", "c", "d", "e", "f", "g", "h", "i", "j", "k", "l", "m",
      "n", "o", "p", "q", "r", "s", "t", "u", "v", "w", "x", "y", "z">>

ToLower(s) ==
    [i \in 1..Len(s) |->
        IF \E k \in 1..Len(UpperLetters) : UpperLetters[k] = s[i]
        THEN LowerLetters[CHOOSE k \in 1..Len(UpperLetters) : UpperLetters[k] = s[i]]
        ELSE s[i]]

(***************************************************************************)
(* filepath.Base: the last element of the path, trailing slashes removed;  *)
(* "." for the empty path and "/" for a path of slashes only.              *)
(***************************************************************************)
RECURSIVE LastElement(_)
LastElement(s) ==
    IF s = <<>> \/ s[Len(s)] = "/"
    THEN <<>>
    ELSE Append(LastElement(SubSeq(s, 1, Len(s) - 1)), s[Len(s)])

Base(path) ==
    IF path = <<>> THEN <<".">>
    ELSE IF TrimRight(path, Slash) = <<>> THEN <<"/">>
    ELSE LastElement(TrimRight(path, Slash))

(***************************************************************************)
(* Constants of the package.                                               *)
(***************************************************************************)
DefaultBase ==
    <<"h", "t", "t", "p", "s", ":", "/", "/", "a", "p", "i", ".", "o", "p",
      "e", "n", "a", "i", ".", "c", "o", "m", "/", "v", "1">>

DefaultModel == "whisper-1"

TranscriptionsPath ==
    <<"a", "u", "d", "i", "o", "/", "t", "r", "a", "n", "s", "c", "r", "i",
      "p", "t", "i", "o", "n", "s">>

BearerPrefix == <<"B", "e", "a", "r", "e", "r", " ">>

(***************************************************************************)
(* Client options and NewClient.  An option is the field it sets and the   *)
(* value; applying a list applies each in order to the zero Client.        *)
(***************************************************************************)
WithKey(key) == [field |-> "apiKey", value |-> key]

WithBaseURL(url) == [field |-> "baseURL", value |-> url]

WithHTTPClient(h) == [field |-> "httpClient", value |-> h]

ZeroClient == [apiKey |-> <<>>, baseURL |-> <<>>, httpClient |-> NULL]

ApplyClientOption(c, opt) == [c EXCEPT ![opt.field] = opt.value]

RECURSIVE ApplyClientOptions(_, _)
ApplyClientOptions(c, opts) ==
    IF opts = <<>> THEN c
    ELSE ApplyClientOptions(ApplyClientOption(c, Head(opts)), Tail(opts))

\* env is the process environment: OPENAI_API_KEY and OPENAI_BASE_URL
\* (an unset variable reads as the empty string).
NewClient(opts, env) ==
    LET c1 == ApplyClientOptions(ZeroClient, opts)
        c2 == IF c1.apiKey = <<>> THEN [c1 EXCEPT !.apiKey = env.OPENAI_API_KEY] ELSE c1
        c3 == IF c2.baseURL = <<>> THEN [c2 EXCEPT !.baseURL = env.OPENAI_BASE_URL] ELSE c2
    IN  IF c3.httpClient = NULL THEN [c3 EXCEPT !.httpClient = "DefaultClient"] ELSE c3

(***************************************************************************)
(* Client.URL                                                              *)
(***************************************************************************)
\* Mutation of URL: the leading slashes of the path left in place.
URLUntrimmedPath(c, relPath) ==
    IF Contains(relPath, SchemeSep)
    THEN relPath
    ELSE LET baseURL == IF c.baseURL = <<>> THEN DefaultBase ELSE c.baseURL
         IN  TrimRight(baseURL, Slash) \o <<"/">> \o relPath

\* Mutation of URL: every argument joined to the base.
URLAlwaysJoined(c, relPath) ==
    LET baseURL == IF c.baseURL = <<>> THEN DefaultBase ELSE c.baseURL
    IN  TrimRight(baseURL, Slash) \o <<"/">> \o TrimLeft(relPath, Slash)

URL(c, relPath) ==
    IF Contains(relPath, SchemeSep)
    THEN relPath
    ELSE LET baseURL == IF c.baseURL = <<>> THEN DefaultBase ELSE c.baseURL
         IN  TrimRight(baseURL, Slash) \o <<"/">> \o TrimLeft(relPath, Slash)


(***************************************************************************)
(* Transcribe options and TranscribeConfig (src/main.go).                  *)
(***************************************************************************)
WithModel(model) == [field |-> "Model", value |-> model]

WithLanguage(lang) == [field |-> "Language", value |-> lang]

WithFile(file) == [field |-> "File", value |-> file]

ZeroTranscribeConfig == [Model |-> "", Language |-> "", File |-> <<>>]

ApplyTranscribeOption(tc, opt) == [tc EXCEPT ![opt.field] = opt.value]

\* Mutation of ApplyTranscribeOptions: the options applied last to first.
RECURSIVE ApplyTranscribeOptionsBackwards(_, _)
ApplyTranscribeOptionsBackwards(tc, opts) ==
    IF opts = <<>> THEN tc
    ELSE ApplyTranscribeOption(ApplyTranscribeOptionsBackwards(tc, Tail(opts)), Head(opts))

\* for _, opt := range opts { opt(tc) }
RECURSIVE ApplyTranscribeOptions(_, _)
ApplyTranscribeOptions(tc, opts) ==
    IF opts = <<>> THEN tc
    ELSE ApplyTranscribeOptions(ApplyTranscribeOption(tc, Head(opts)), Tail(opts))

\* if tc.Model == "" { tc.Model = DefaultModel }
DefaultedModel(tc) ==
    IF tc.Model = "" THEN [tc EXCEPT !.Model = DefaultModel] ELSE tc

(***************************************************************************)
(* Errors and return values.  An error is where it was made and its text;  *)
(* a Go pointer or error that may be nil is a sequence of length 0 or 1.   *)
(***************************************************************************)
Nil == <<>>

Error(kind, detail) == [kind |-> kind, detail |-> detail]

ErrMissingKey == Error("errors.New", <<"missing API key (set OPENAI_API_KEY in env)">>)

ErrNoFilename == Error("errors.New", <<"filename is not set">>)

ErrUnexpected(status) == Error("fmt.Errorf", <<"unexpected response: ", status>>)

ErrURLParse == Error("url.Parse", <<"missing protocol scheme">>)

ErrGzipHeader == Error("gzip.NewReader", <<"gzip: invalid header">>)

Return(tr, err) == [tr |-> tr, err |-> err]

\* Mutation of MissingKey: the check of the API key left out.
MissingKeyUnchecked(c) == FALSE

\* if c.apiKey == ""
MissingKey(c) == c.apiKey = <<>>

\* Mutation of FilenameNotSet: the check of the file name left out.
FilenameUnchecked(tc) == FALSE

\* if tc.File == ""
FilenameNotSet(tc) == tc.File = <<>>

(***************************************************************************)
(* The multipart body: the parts in the order they are written.            *)
(***************************************************************************)
FormField(name, value) ==
    [kind |-> "field", name |-> name, filename |-> <<>>, value |-> value, content |-> <<>>]

FormFile(name, filename, content) ==
    [kind |-> "file", name |-> name, filename |-> filename, value |-> "", content |-> content]

\* Mutation of MultipartBody: the language hint sent as a fourth part.
MultipartBodyWithLanguage(tc, data) ==
    << FormField("model", tc.Model),
       FormField("response_format", "verbose_json"),
       FormFile("file", tc.File, data) >>
        \o (IF tc.Language = "" THEN <<>> ELSE <<FormField("language", tc.Language)>>)

MultipartBody(tc, data) ==
    << FormField("model", tc.Model),
       FormField("response_format", "verbose_json"),
       FormFile("file", tc.File, data) >>

\* http.NewRequest fails when url.Parse rejects the URL; of its rules the
\* model keeps the one the base URLs it draws can trigger: a URL that
\* starts with a colon has no protocol scheme.
NewRequestFails(url) == url # <<>> /\ url[1] = ":"

NewRequest(c, tc, data) ==
    [ Method |-> "POST",
      URL    |-> URL(c, TranscriptionsPath),
      Header |-> [ ContentType    |-> "multipart/form-data",
                   AcceptEncoding |-> "gzip, deflate",
                   Accept         |-> "*/*",
                   Authorization  |-> BearerPrefix \o c.apiKey ],
      Body   |-> MultipartBody(tc, data),
      Client |-> c.httpClient ]

(***************************************************************************)
(* Transcribe up to the call of c.httpClient.Do.  h is the input stream:   *)
(* the bytes it yields and the error that ends it (Nil for io.EOF).        *)
(* The result says whether h was read, the configuration built, and        *)
(* either the value returned early or the request handed to Do.            *)
(***************************************************************************)
Stopped(tc, read, ret) == [tc |-> tc, read |-> read, req |-> Nil, ret |-> <<ret>>]

TranscribeUntilDo(c, h, opts) ==
    IF MissingKey(c)
    THEN Stopped(Nil, FALSE, Return(Nil, <<ErrMissingKey>>))
    ELSE LET tc == DefaultedModel(ApplyTranscribeOptions(ZeroTranscribeConfig, opts))
         IN  IF FilenameNotSet(tc)
             THEN Stopped(<<tc>>, FALSE, Return(Nil, <<ErrNoFilename>>))
             ELSE IF h.err # Nil
             THEN Stopped(<<tc>>, TRUE, Return(Nil, h.err))
             ELSE IF NewRequestFails(URL(c, TranscriptionsPath))
             THEN Stopped(<<tc>>, TRUE, Return(Nil, <<ErrURLParse>>))
             ELSE [tc |-> <<tc>>, read |-> TRUE,
                   req |-> <<NewRequest(c, tc, h.data)>>, ret |-> Nil]

(***************************************************************************)
(* The response.  A body is the document the server wrote (a JSON object,  *)
(* other text, or nothing), how its bytes were really coded, and whether   *)
(* the coded bytes are damaged: in the gzip header, or in the data.        *)
(***************************************************************************)
JSONDoc(text) == [kind |-> "json", task |-> "transcribe", text |-> text]

TextDoc == [kind |-> "text", task |-> "", text |-> "Internal Server Error"]

EmptyDoc == [kind |-> "empty", task |-> "", text |-> ""]

\* coded bytes read without decoding, and a stream cut by a read error
CodedBytes == [kind |-> "coded", task |-> "", text |-> ""]

Truncated == [kind |-> "truncated", task |-> "", text |-> ""]

Body(coding, damage, doc) == [coding |-> coding, damage |-> damage, doc |-> doc]

\* strings.ToLower(resp.Header.Get("Content-Encoding")) and the switch on it
GzipWord == <<"g", "z", "i", "p">>

DeflateWord == <<"d", "e", "f", "l", "a", "t", "e">>

\* Mutation of SelectDecoder: the header compared as it came.
SelectDecoderCaseSensitive(contentEncoding) ==
    IF contentEncoding = GzipWord THEN "gzip"
    ELSE IF contentEncoding = DeflateWord THEN "deflate"
    ELSE "identity"

SelectDecoder(contentEncoding) ==
    LET enc == ToLower(contentEncoding)
    IN  IF enc = GzipWord THEN "gzip"
        ELSE IF enc = DeflateWord THEN "deflate"
        ELSE "identity"

\* gzip.NewReader reads the gzip header and fails when there is none.
GzipNewReaderFails(body) == ~(body.coding = "gzip" /\ body.damage # "header")

\* Reading the whole of r: what is read, and the error that ends it.
ReadAll(decoder, body) ==
    CASE decoder = "gzip" ->
            IF body.damage = "ok"
            THEN [data |-> body.doc, err |-> Nil]
            ELSE [data |-> Truncated, err |-> <<Error("gzip", <<"unexpected EOF">>)>>]
      [] decoder = "deflate" ->
            IF body.coding = "deflate" /\ body.damage = "ok"
            THEN [data |-> body.doc, err |-> Nil]
            ELSE [data |-> Truncated, err |-> <<Error("flate", <<"corrupt input">>)>>]
      [] OTHER ->
            IF body.coding = "none"
            THEN [data |-> body.doc, err |-> Nil]
            ELSE [data |-> CodedBytes, err |-> Nil]

\* json.NewDecoder(r).Decode(&tr); of the fields of TranscribeResponse the
\* documents of the model set Task and Text
JSONDecode(read) ==
    IF read.err # Nil THEN Return(Nil, read.err)
    ELSE IF read.data.kind = "json"
    THEN Return(<<[Task |-> read.data.task, Text |-> read.data.text]>>, Nil)
    ELSE IF read.data.kind = "empty"
    THEN Return(Nil, <<Error("json", <<"EOF">>)>>)
    ELSE Return(Nil, <<Error("json", <<"invalid character">>)>>)

\* if resp.StatusCode != http.StatusOK
StatusOK == 200

StatusNotOK(resp) == resp.StatusCode # StatusOK

(***************************************************************************)
(* Transcribe from the return of c.httpClient.Do.  out is what Do gave:    *)
(* a response or an error.  The result is the decoder selected, what was   *)
(* copied to os.Stderr, what the deferred calls closed, and the value      *)
(* returned.                                                               *)
(***************************************************************************)
TranscribeAfterDo(out) ==
    IF out.err # Nil
    THEN [decoder |-> "", diag |-> Nil, closed |-> {}, ret |-> Return(Nil, out.err)]
    ELSE LET resp == out.resp[1]
             decoder == SelectDecoder(resp.ContentEncoding)
             read == ReadAll(decoder, resp.Body)
         IN  IF decoder = "gzip" /\ GzipNewReaderFails(resp.Body)
             THEN [decoder |-> decoder, diag |-> Nil, closed |-> {"resp.Body"},
                   ret |-> Return(Nil, <<ErrGzipHeader>>)]
             ELSE IF StatusNotOK(resp)
             THEN [decoder |-> decoder, diag |-> <<read.data>>,
                   closed |-> {"resp.Body"} \cup ({decoder} \ {"identity"}),
                   ret |-> Return(Nil, <<ErrUnexpected(resp.Status)>>)]
             ELSE [decoder |-> decoder, diag |-> Nil,
                   closed |-> {"resp.Body"} \cup ({decoder} \ {"identity"}),
                   ret |-> JSONDecode(read)]

(***************************************************************************)
(* State: one invocation per caller.                                       *)
(***************************************************************************)
IdleCall ==
    [ pc      |-> "idle",  \* "idle", "awaiting" (inside httpClient.Do), "done"
      entry   |-> "",      \* "Transcribe" or "TranscribeFile"
      path    |-> <<>>,    \* TranscribeFile's file argument
      h       |-> Nil,     \* the input stream given to Transcribe
      args    |-> <<>>,    \* the options the caller passed
      opts    |-> <<>>,    \* the options Transcribe received
      tc      |-> Nil,     \* the TranscribeConfig built
      read    |-> FALSE,   \* whether h has been read
      req     |-> Nil,     \* the request handed to Do
      out     |-> Nil,     \* what Do returned
      decoder |-> "",      \* the decoder selected for the response body
      closed  |-> {},      \* what the deferred calls have closed
      ret     |-> Nil ]    \* the value returned to the caller

ErrOpen == Error("os.Open", <<"no such file or directory">>)

\* Transcribe from its entry to its return or to the call of Do.
Begin(p, entry, path, h, args, opts) ==
    LET r == TranscribeUntilDo(client, h, opts)
        atExit == IF entry = "TranscribeFile" /\ r.ret # Nil THEN {"file"} ELSE {}
    IN  /\ calls' = [calls EXCEPT ![p] =
                        [IdleCall EXCEPT
                            !.pc = IF r.ret = Nil THEN "awaiting" ELSE "done",
                            !.entry = entry, !.path = path, !.h = <<h>>,
                            !.args = args, !.opts = opts, !.tc = r.tc, !.read = r.read,
                            !.req = r.req, !.closed = atExit, !.ret = r.ret]]
        /\ sent' = IF r.req = Nil THEN sent
                   ELSE Append(sent, [by |-> p, req |-> r.req[1]])
        /\ UNCHANGED <<client, stderr, urlCall>>

\* func (c *Client) Transcribe(h io.Reader, opts ...TranscribeOption),
\* called with a stream of streams and a list of optionLists.
Transcribe(p, streams, optionLists) ==
    /\ calls[p].pc = "idle"
    /\ \E h \in streams, opts \in optionLists :
           Begin(p, "Transcribe", <<>>, h, opts, opts)

\* func (c *Client) TranscribeFile(file string, opts ...TranscribeOption),
\* called with a path of paths; onDisk is the file os.Open finds there,
\* Nil when there is none.
TranscribeFile(p, paths, streams, optionLists) ==
    /\ calls[p].pc = "idle"
    /\ \E file \in paths, onDisk \in {Nil} \cup {<<h>> : h \in streams},
          opts \in optionLists :
           IF onDisk = Nil
           THEN /\ calls' = [calls EXCEPT ![p] =
                                [IdleCall EXCEPT !.pc = "done", !.entry = "TranscribeFile",
                                                 !.path = file, !.args = opts,
                                                 !.ret = <<Return(Nil, <<ErrOpen>>)>>]]
                /\ UNCHANGED <<client, sent, stderr, urlCall>>
           ELSE Begin(p, "TranscribeFile", file, onDisk[1], opts,
                      <<WithFile(Base(file))>> \o opts)

\* Mutation of DoReturns: a transport failure answered by sending the
\* request again.
DoReturnsRetrying(p, outcomes) ==
    /\ calls[p].pc = "awaiting"
    /\ \E out \in outcomes :
           LET r == TranscribeAfterDo(out)
               atExit == IF calls[p].entry = "TranscribeFile" THEN {"file"} ELSE {}
           IN  IF out.err # Nil
               THEN /\ sent' = Append(sent, [by |-> p, req |-> calls[p].req[1]])
                    /\ UNCHANGED <<calls, stderr>>
               ELSE /\ calls' = [calls EXCEPT ![p].pc = "done", ![p].out = <<out>>,
                                              ![p].decoder = r.decoder,
                                              ![p].closed = r.closed \cup atExit,
                                              ![p].ret = <<r.ret>>]
                    /\ stderr' = stderr \o r.diag
                    /\ UNCHANGED sent
    /\ UNCHANGED <<client, urlCall>>

\* c.httpClient.Do(req) returns one of outcomes, and Transcribe runs to
\* its return.
DoReturns(p, outcomes) ==
    /\ calls[p].pc = "awaiting"
    /\ \E out \in outcomes :
           LET r == TranscribeAfterDo(out)
               atExit == IF calls[p].entry = "TranscribeFile" THEN {"file"} ELSE {}
           IN  /\ calls' = [calls EXCEPT ![p].pc = "done", ![p].out = <<out>>,
                                         ![p].decoder = r.decoder,
                                         ![p].closed = r.closed \cup atExit,
                                         ![p].ret = <<r.ret>>]
               /\ stderr' = stderr \o r.diag
    /\ UNCHANGED <<client, sent, urlCall>>

\* Mutation of CallURL: the default base URL stored in the client the
\* first time it is needed.
CallURLStoringDefault(relPaths) ==
    /\ urlCall = Nil
    /\ \E relPath \in relPaths :
           urlCall' = <<[relPath |-> relPath, url |-> URL(client, relPath)]>>
    /\ client' = IF client.baseURL = <<>>
                 THEN [client EXCEPT !.baseURL = DefaultBase]
                 ELSE client
    /\ UNCHANGED <<calls, sent, stderr>>

\* a direct call of c.URL(relPath), relPath one of relPaths; like the
\* invocations of Transcribe, one to a run
CallURL(relPaths) ==
    /\ urlCall = Nil
    /\ \E relPath \in relPaths :
           urlCall' = <<[relPath |-> relPath, url |-> URL(client, relPath)]>>
    /\ UNCHANGED <<client, calls, sent, stderr>>

(***************************************************************************)
(* Inputs.                                                                 *)
(***************************************************************************)
RECURSIVE SeqsUpTo(_, _)
SeqsUpTo(S, n) ==
    IF n = 0 THEN {<<>>}
    ELSE LET shorter == SeqsUpTo(S, n - 1)
         IN  shorter \cup {Append(s, x) : s \in shorter, x \in S}

HostBase == <<"h", "t", "t", "p", ":", "/", "/", "x">>

Keys == {<<>>, <<"k">>}

ClientOptions ==
    {WithKey(k) : k \in Keys}
        \cup {WithBaseURL(HostBase \o <<"/">>), WithHTTPClient("custom")}

Environments ==
    [OPENAI_API_KEY : Keys, OPENAI_BASE_URL : {<<>>, <<":">>}]

Clients ==
    {NewClient(o, e) : o \in SeqsUpTo(ClientOptions, MaxClientOpts), e \in Environments}

TranscribeOptions ==
    { WithModel("m"), WithModel(""), WithLanguage("en"),
      WithFile(<<"f">>), WithFile(<<>>) }

OptionLists == SeqsUpTo(TranscribeOptions, MaxOpts)

Streams ==
    { [data |-> <<1, 2>>, err |-> Nil],
      [data |-> <<1>>, err |-> <<Error("read", <<"unexpected EOF">>)>>] }

Paths == { <<"a">>, <<"d", "/", "b">> }

Statuses ==
    { [StatusCode |-> 200, Status |-> "200 OK"],
      [StatusCode |-> 201, Status |-> "201 Created"],
      [StatusCode |-> 500, Status |-> "500 Internal Server Error"] }

ContentEncodings ==
    { <<>>, GzipWord, <<"G", "Z", "I", "P">>,
      DeflateWord, <<"D", "e", "f", "l", "a", "t", "E">>,
      <<"g", "z", "i", "p", ",", " ", "d", "e", "f", "l", "a", "t", "e">>,
      <<"b", "r">> }

Bodies ==
    {Body("none", "ok", d) : d \in {JSONDoc("hello"), TextDoc, EmptyDoc}}
        \cup {Body("gzip", "ok", d) : d \in {JSONDoc("hello"), TextDoc}}
        \cup {Body("deflate", "ok", JSONDoc("hello")), Body("gzip", "header", TextDoc),
              Body("gzip", "data", JSONDoc("hello")),
              Body("deflate", "data", JSONDoc("hello"))}

Responses ==
    { [StatusCode |-> s.StatusCode, Status |-> s.Status,
       ContentEncoding |-> e, Body |-> b] :
        s \in Statuses, e \in ContentEncodings, b \in Bodies }

TransportErrors ==
    { Error("net/http", <<"dial tcp: connection refused">>),
      Error("net/http", <<"context deadline exceeded">>) }

DoOutcomes ==
    {[resp |-> <<r>>, err |-> Nil] : r \in Responses}
        \cup {[resp |-> Nil, err |-> <<e>>] : e \in TransportErrors}

(***************************************************************************)
(* Spec: one caller, every input.                                          *)
(***************************************************************************)
InitFor(callers) ==
    /\ client \in Clients
    /\ calls = [p \in callers |-> IdleCall]
    /\ sent = <<>>
    /\ stderr = <<>>
    /\ urlCall = Nil

Init == InitFor({1})

Next ==
    \/ \E p \in DOMAIN calls : Transcribe(p, Streams, OptionLists)
    \/ \E p \in DOMAIN calls : TranscribeFile(p, Paths, Streams, OptionLists)
    \/ \E p \in DOMAIN calls : DoReturns(p, DoOutcomes)

Spec == Init /\ [][Next]_vars

(***************************************************************************)
(* SpecURL: Client.URL alone, on every base URL and argument over a small  *)
(* alphabet, the base URL configured by option or by the environment.      *)
(***************************************************************************)
URLAlphabet == {"a", "/", ":"}

BaseURLs == SeqsUpTo(URLAlphabet, MaxBaseLen)

RelPaths == SeqsUpTo(URLAlphabet, MaxRelLen)

URLClients ==
    {NewClient(<<WithBaseURL(b)>>, [OPENAI_API_KEY |-> <<"k">>, OPENAI_BASE_URL |-> e]) :
        b \in BaseURLs, e \in {<<>>, <<"a", "/">>}}

InitURL ==
    /\ client \in URLClients
    /\ calls = [p \in {1} |-> IdleCall]
    /\ sent = <<>>
    /\ stderr = <<>>
    /\ urlCall = Nil

NextURL == CallURL(RelPaths)

SpecURL == InitURL /\ [][NextURL]_vars

(***************************************************************************)
(* SpecConc: two callers sharing one client, their calls of Transcribe,    *)
(* TranscribeFile and URL interleaved at the blocking call of Do.          *)
(***************************************************************************)
ConcOptionLists == {<<>>, <<WithFile(<<"f">>)>>}

ConcOutcomes ==
    { [resp |-> <<[StatusCode |-> 200, Status |-> "200 OK",
                   ContentEncoding |-> <<>>, Body |-> Body("none", "ok", JSONDoc("hello"))]>>,
       err |-> Nil],
      [resp |-> <<[StatusCode |-> 500, Status |-> "500 Internal Server Error",
                   ContentEncoding |-> GzipWord, Body |-> Body("gzip", "ok", TextDoc)]>>,
       err |-> Nil],
      [resp |-> Nil, err |-> <<Error("net/http", <<"dial tcp: connection refused">>)>>] }

ConcRelPaths == {TranscriptionsPath, <<"a", ":", "/", "/", "a">>}

InitConc == InitFor({1, 2})

NextConc ==
    \/ \E p \in DOMAIN calls : Transcribe(p, Streams, ConcOptionLists)
    \/ \E p \in DOMAIN calls : TranscribeFile(p, {<<"a">>}, Streams, ConcOptionLists)
    \/ \E p \in DOMAIN calls : DoReturns(p, ConcOutcomes)
    \/ CallURL(ConcRelPaths)

SpecConc == InitConc /\ [][NextConc]_vars

(***************************************************************************)
(* Properties.  Their helpers say what a claim expects in terms of the     *)
(* caller's inputs, without the operators the model computes with.         *)
(***************************************************************************)
Callers == DOMAIN calls

Entered(p) == calls[p].h # Nil   \* Transcribe was entered

RequestsOf(p) == {i \in 1..Len(sent) : sent[i].by = p}

Touching(opts, field) == {i \in 1..Len(opts) : opts[i].field = field}

LastOf(S) == CHOOSE i \in S : \A j \in S : j <= i

\* the value the last option touching field sets, zero when none does
LastSet(opts, field, zero) ==
    IF Touching(opts, field) = {} THEN zero
    ELSE opts[LastOf(Touching(opts, field))].value

FailedWith(p, err) ==
    /\ calls[p].pc = "done"
    /\ calls[p].ret = <<[tr |-> <<>>, err |-> <<err>>]>>

NothingSentOrRead(p) ==
    /\ calls[p].req = <<>>
    /\ RequestsOf(p) = {}
    /\ calls[p].read = FALSE
    /\ calls[p].out = <<>>

\* C1: Transcribe on a client with an empty credential fails with the
\* missing-credential error, whatever the options and the stream (also when
\* the file name is empty too); no request is issued and the stream is not
\* read.
C1_EmptyKeyFailsFirst ==
    \A p \in Callers :
        (Entered(p) /\ client.apiKey = <<>>) =>
            /\ FailedWith(p, [kind |-> "errors.New",
                              detail |-> <<"missing API key (set OPENAI_API_KEY in env)">>])
            /\ NothingSentOrRead(p)
            /\ sent = <<>>

C1_Witness ==
    \E p \in Callers :
        /\ Entered(p) /\ client.apiKey = <<>>
        /\ calls[p].entry = "Transcribe"
        /\ LastSet(calls[p].opts, "File", <<>>) = <<>>
        /\ LastSet(calls[p].opts, "Model", "") = "m"
        /\ calls[p].pc = "done"

\* C2: Transcribe with a credential and options that leave the file name
\* empty fails with "filename is not set" before any request is issued; in
\* every state, each request sent carries a non-empty file name and a
\* non-empty credential.
C2_EmptyFilenameFailsFirst ==
    /\ \A p \in Callers :
        (Entered(p) /\ client.apiKey # <<>>
                    /\ LastSet(calls[p].opts, "File", <<>>) = <<>>) =>
            /\ FailedWith(p, [kind |-> "errors.New", detail |-> <<"filename is not set">>])
            /\ NothingSentOrRead(p)
    /\ \A i \in 1..Len(sent) :
        /\ client.apiKey # <<>>
        /\ Len(sent[i].req.Header.Authorization) > Len(BearerPrefix)
        /\ \A k \in 1..Len(sent[i].req.Body) :
               sent[i].req.Body[k].kind = "file" => sent[i].req.Body[k].filename # <<>>
        /\ \E k \in 1..Len(sent[i].req.Body) : sent[i].req.Body[k].kind = "file"

C2_Witness ==
    \E p \in Callers :
        /\ Entered(p) /\ client.apiKey # <<>>
        /\ Len(calls[p].opts) = 2
        /\ calls[p].opts[1] = [field |-> "File", value |-> <<"f">>]
        /\ calls[p].opts[2] = [field |-> "File", value |-> <<>>]
        /\ calls[p].pc = "done"
        /\ sent = <<>>

Responded(p) == calls[p].pc = "done" /\ calls[p].out # <<>> /\ calls[p].out[1].resp # <<>>

ResponseOf(p) == calls[p].out[1].resp[1]

\* C3: for every response with a status other than 200, whatever its
\* Content-Encoding and body, Transcribe fails with the error that names the
\* status text, never with a decode or decompression error.
C3_Non200IsRemoteError ==
    \A p \in Callers :
        (Responded(p) /\ ResponseOf(p).StatusCode # 200) =>
            FailedWith(p, [kind |-> "fmt.Errorf",
                           detail |-> <<"unexpected response: ", ResponseOf(p).Status>>])

\* the bytes of the input stream, as the caller gave it
InputBytes(p) == calls[p].h[1].data

ExpectedModel(opts) ==
    IF LastSet(opts, "Model", "") = "" THEN "whisper-1" ELSE LastSet(opts, "Model", "")

\* C6: every request sent carries exactly three parts in this order: field
\* "model" with the configured model ("whisper-1" when none or an empty one
\* was configured), field "response_format" with "verbose_json", and the
\* file part "file" with the configured file name and the bytes of the
\* input stream; no option adds, removes or changes a part.
C6_ThreeParts ==
    \A i \in 1..Len(sent) :
        LET p == sent[i].by
            parts == sent[i].req.Body
        IN  /\ Len(parts) = 3
            /\ parts[1] = [kind |-> "field", name |-> "model", filename |-> <<>>,
                           value |-> ExpectedModel(calls[p].opts), content |-> <<>>]
            /\ parts[2] = [kind |-> "field", name |-> "response_format", filename |-> <<>>,
                           value |-> "verbose_json", content |-> <<>>]
            /\ parts[3] = [kind |-> "file", name |-> "file",
                           filename |-> LastSet(calls[p].opts, "File", <<>>),
                           value |-> "", content |-> InputBytes(p)]
            /\ sent[i].req = calls[p].req[1]

C6_Witness ==
    \E i \in 1..Len(sent) :
        /\ Touching(calls[sent[i].by].opts, "Language") # {}
        /\ LastSet(calls[sent[i].by].opts, "Model", "m") = ""
        /\ sent[i].req.Body[1].value = "whisper-1"
        /\ sent[i].req.Body[3].content = <<1, 2>>

\* s is word in some letter case
InAnyCase(s, word) ==
    /\ Len(s) = Len(word)
    /\ \A i \in 1..Len(s) :
        \/ s[i] = word[i]
        \/ \E k \in 1..26 : UpperLetters[k] = s[i] /\ LowerLetters[k] = word[i]

\* C7: after a successful transport call the decoder is selected from the
\* Content-Encoding header alone: "gzip" in any letter case selects the gzip
\* decoder, "deflate" in any letter case the raw-deflate decoder, every
\* other value pass-through; the HTTP status plays no part.
C7_DecoderByHeader ==
    \A p \in Callers :
        Responded(p) =>
            calls[p].decoder =
                IF InAnyCase(ResponseOf(p).ContentEncoding, <<"g", "z", "i", "p">>)
                THEN "gzip"
                ELSE IF InAnyCase(ResponseOf(p).ContentEncoding,
                                  <<"d", "e", "f", "l", "a", "t", "e">>)
                THEN "deflate"
                ELSE "identity"

C7_Witness ==
    \E p \in Callers :
        /\ Responded(p)
        /\ ResponseOf(p).ContentEncoding = <<"G", "Z", "I", "P">>
        /\ ResponseOf(p).StatusCode = 500
        /\ calls[p].decoder = "gzip"

\* b is the last element of path (a path that does not end in a slash)
IsBaseName(b, path) ==
    /\ b # <<>>
    /\ \A k \in 1..Len(b) : b[k] # "/"
    /\ \E i \in 0..(Len(path) - 1) :
        /\ b = [k \in 1..(Len(path) - i) |-> path[i + k]]
        /\ i = 0 \/ path[i] = "/"

BuiltConfig(p) == calls[p].tc[1]

\* C8, as stated: for each field the value in effect is the one the last
\* option touching the field set.
C8_LastOptionValueInEffect ==
    \A p \in Callers :
        calls[p].tc # <<>> =>
            \A f \in {"Model", "Language", "File"} :
                Touching(calls[p].opts, f) # {} =>
                    BuiltConfig(p)[f] =
                        calls[p].opts[LastOf(Touching(calls[p].opts, f))].value

\* C8, amended: options are applied in call order to the zero
\* configuration, so language and file name in effect are those of the last
\* option touching the field (the zero value when none does), and the model
\* in effect is that of the last WithModel option unless it is empty or
\* missing, when it is "whisper-1"; TranscribeFile puts the option for the
\* path's base name first, so the file name in effect is the base name unless
\* the caller passed a WithFile option, and then the last one's value.
C8_LastOptionWins ==
    \A p \in Callers :
        calls[p].tc # <<>> =>
            /\ BuiltConfig(p).Model = ExpectedModel(calls[p].opts)
            /\ BuiltConfig(p).Language = LastSet(calls[p].opts, "Language", "")
            /\ BuiltConfig(p).File = LastSet(calls[p].opts, "File", <<>>)
            /\ calls[p].entry = "Transcribe" => calls[p].opts = calls[p].args
            /\ calls[p].entry = "TranscribeFile" =>
                /\ Len(calls[p].opts) = Len(calls[p].args) + 1
                /\ \A k \in 1..Len(calls[p].args) : calls[p].opts[k + 1] = calls[p].args[k]
                /\ calls[p].opts[1].field = "File"
                /\ IsBaseName(calls[p].opts[1].value, calls[p].path)
                /\ BuiltConfig(p).File =
                       IF Touching(calls[p].args, "File") = {}
                       THEN calls[p].opts[1].value
                       ELSE LastSet(calls[p].args, "File", <<>>)

C8_Witness ==
    \E p \in Callers :
        /\ calls[p].tc # <<>>
        /\ calls[p].entry = "TranscribeFile"
        /\ calls[p].path = <<"d", "/", "b">>
        /\ calls[p].args = <<[field |-> "File", value |-> <<"f">>],
                             [field |-> "Model", value |-> ""] >>
        /\ BuiltConfig(p).File = <<"f">>
        /\ BuiltConfig(p).Model = "whisper-1"
        /\ calls[p].pc = "awaiting"

Outcome(p) == calls[p].ret[1]

TransportFailed(p) == calls[p].out # <<>> /\ calls[p].out[1].err # <<>>

OneRequestOneOutcome ==
    \A p \in Callers :
        /\ Cardinality(RequestsOf(p)) <= 1
        /\ calls[p].pc # "done" => calls[p].ret = <<>>
        /\ calls[p].pc = "done" =>
            /\ Len(calls[p].ret) = 1
            /\ Len(Outcome(p).tr) + Len(Outcome(p).err) = 1
        /\ TransportFailed(p) =>
            /\ calls[p].pc = "done"
            /\ Outcome(p).tr = <<>>
            /\ Outcome(p).err = calls[p].out[1].err

Rank(pc) == CASE pc = "idle" -> 0 [] pc = "awaiting" -> 1 [] pc = "done" -> 2

\* a step of an invocation moves it on, and a returned one stays as it is
NothingAfterReturn ==
    \A p \in Callers :
        /\ calls'[p] # calls[p] => Rank(calls'[p].pc) > Rank(calls[p].pc)
        /\ calls[p].pc = "done" => RequestsOf(p)' = RequestsOf(p)
        /\ calls[p].pc = "awaiting" =>
               \/ RequestsOf(p)' = RequestsOf(p)
               \/ calls'[p].pc = "done"

\* an invocation waiting in Do can take whatever Do returns
ReturnsWhenDoDoes ==
    \A p \in Callers :
        calls[p].pc = "awaiting" => ENABLED DoReturns(p, DoOutcomes)

\* C9: every invocation of Transcribe issues at most one request and ends
\* with exactly one outcome, a result or one error; it only moves forward
\* (called, waiting in Do, returned) and returns when Do does; once it has
\* returned, whatever the failure, no further request is issued for it; a
\* transport failure is returned as the error the transport produced.
C9_OneRequestNoRetry ==
    /\ [](OneRequestOneOutcome /\ ReturnsWhenDoDoes)
    /\ [][NothingAfterReturn]_vars

C9_Witness ==
    \E p \in Callers :
        /\ TransportFailed(p)
        /\ calls[p].pc = "done"
        /\ Cardinality(RequestsOf(p)) = 1
        /\ Outcome(p).err = <<[kind |-> "net/http",
                               detail |-> <<"dial tcp: connection refused">>]>>

\* r contains "://"
HasSchemeSeparator(r) ==
    \E i \in 1..(Len(r) - 2) : r[i] = ":" /\ r[i + 1] = "/" /\ r[i + 2] = "/"

\* u is b without its trailing slashes, one slash, and r without its
\* leading slashes: i is where b's trailing slashes begin and j where r's
\* leading slashes end.
IsJoin(u, b, r) ==
    \E i \in 0..Len(b), j \in 0..Len(r) :
        /\ \A k \in (i + 1)..Len(b) : b[k] = "/"
        /\ i = 0 \/ b[i] # "/"
        /\ \A k \in 1..j : r[k] = "/"
        /\ j = Len(r) \/ r[j + 1] # "/"
        /\ Len(u) = i + 1 + (Len(r) - j)
        /\ \A k \in 1..i : u[k] = b[k]
        /\ u[i + 1] = "/"
        /\ \A k \in 1..(Len(r) - j) : u[i + 1 + k] = r[j + k]

BaseInUse ==
    IF client.baseURL = <<>>
    THEN << "h", "t", "t", "p", "s", ":", "/", "/", "a", "p", "i", ".", "o", "p", "e",
            "n", "a", "i", ".", "c", "o", "m", "/", "v", "1" >>
    ELSE client.baseURL

\* C4: for every relative path without "://" and every base URL (the
\* configured one, or https://api.openai.com/v1 when none is configured),
\* URL returns the base without its trailing slashes, one slash, and the
\* path without its leading slashes.
C4_JoinedByOneSlash ==
    \A k \in 1..Len(urlCall) :
        ~HasSchemeSeparator(urlCall[k].relPath) =>
            IsJoin(urlCall[k].url, BaseInUse, urlCall[k].relPath)

C4_Witness ==
    /\ urlCall # <<>>
    /\ client.baseURL = <<"a", "/", "/">>
    /\ urlCall[1].relPath = <<"/", "/", "a", "/">>
    /\ urlCall[1].url = <<"a", "/", "a", "/">>

\* C5: for every argument that contains "://", URL returns the argument
\* unchanged, whatever the configured base URL.
C5_AbsoluteUnchanged ==
    \A k \in 1..Len(urlCall) :
        HasSchemeSeparator(urlCall[k].relPath) => urlCall[k].url = urlCall[k].relPath

C5_Witness ==
    /\ urlCall # <<>>
    /\ client.baseURL = <<"a", "/">>
    /\ urlCall[1].relPath = <<"/", ":", "/", "/">>
    /\ urlCall[1].url = <<"/", ":", "/", "/">>

RequestsUseClient ==
    \A i \in 1..Len(sent) :
        /\ sent[i].req.Header.Authorization =
               <<"B", "e", "a", "r", "e", "r", " ">> \o client.apiKey
        /\ sent[i].req.Client = client.httpClient
        /\ IsJoin(sent[i].req.URL, BaseInUse,
                  << "a", "u", "d", "i", "o", "/", "t", "r", "a", "n", "s", "c", "r",
                     "i", "p", "t", "i", "o", "n", "s" >>)

\* C10: once NewClient has returned, no call of URL, Transcribe or
\* TranscribeFile changes the client's credential, base URL or transport, on
\* any path; so with calls interleaved on one client, every request carries
\* the values construction set.
C10_ClientReadOnly ==
    /\ [][client' = client]_vars
    /\ []RequestsUseClient

C10_Witness ==
    /\ Len(sent) = 2
    /\ sent[1].by # sent[2].by
    /\ calls[sent[1].by].pc = "awaiting"
    /\ calls[sent[2].by].pc = "done"
    /\ urlCall # <<>>
    /\ client.baseURL = <<>>

=============================================================================
